---- MODULE Spec2Model ----
(***************************************************************************)
(* State-machine model of src/index.tsx: the generation orchestrator       *)
(* (handleGenerateClick), the scene builder (buildSceneFromData), the      *)
(* image upload handlers and the UI utilities they call.                   *)
(*                                                                         *)
(* Every event handler runs to completion on the single JavaScript thread, *)
(* so each handler is one action.  handleGenerateClick suspends once, at   *)
(* its await: the part before the await is one action and the continuation *)
(* (JSON.parse, buildSceneFromData, catch, finally) is another.            *)
(*                                                                         *)
(* Numbers are rationals <<numerator, denominator>> in lowest terms, so    *)
(* that the divisions of the geometry builder are computed, not assumed.   *)
(***************************************************************************)
EXTENDS Integers, Sequences, FiniteSets, TLC

VARIABLES
  ai,                        \* the GoogleGenAI instance: Null or an instance
  apiKeyModalShown,          \* apiKeyModal.style.display = 'flex'
  promptInput,               \* promptInput.value
  uploadedImage,             \* Null or [mimeType, data]
  readers,                   \* FileReader loads started and not yet completed
  generateBtnDisabled,       \* generateBtn.disabled
  downloadToggleBtnDisabled, \* downloadToggleBtn.disabled
  downloadOptionsShown,      \* downloadOptions.classList contains 'show'
  errorMessage,              \* errorMessageDiv: [display, textContent]
  generatedContentGroup,     \* generatedContentGroup.children, in order
  sceneBackground,           \* scene.background
  inflight,                  \* suspended handleGenerateClick invocations
  orchestrator,              \* Idle / Requesting / Succeeded / Failed
  lastData,                  \* what the most recent continuation received
  sceneAtStart,              \* the scene when the latest request or build began
  builds,                    \* buildSceneFromData calls since the latest request
  gltfPending,               \* GLTFExporter.parse calls whose callback is due
  frame,                     \* what the latest renderer.render drew
  imageRemoved               \* handleRemoveImage ran, no file selected since

vars == <<ai, apiKeyModalShown, promptInput, uploadedImage, readers,
          generateBtnDisabled, downloadToggleBtnDisabled, downloadOptionsShown,
          errorMessage, generatedContentGroup, sceneBackground, inflight,
          orchestrator, lastData, sceneAtStart, builds, gltfPending, frame,
          imageRemoved>>

\* the state of the exports, the renderer and the image removal
rest == <<gltfPending, frame, imageRemoved>>

---------------------------------------------------------------------------
(* Bounds of the model *)

\* longest objects list of a response in Spec
MaxResponseObjects == 2
\* longest objects list of a description in BuildSpec
MaxObjects == 2
\* cap on suspended handleGenerateClick invocations
MaxInflight == 2
\* cap on FileReader loads in progress
MaxReaders == 2
\* successive applications of buildSceneFromData in BuildSpec
MaxBuilds == 2
\* cap on GLTF exports whose callback is due
MaxExports == 1

---------------------------------------------------------------------------
(* JavaScript values *)

Null == [jsType |-> "null"]

Has(obj, field) == field \in DOMAIN obj

RECURSIVE Gcd(_, _)
Gcd(a, b) == IF b = 0 THEN a ELSE Gcd(b, a % b)

\* a / b in JavaScript, for an integer a and a positive integer b
Div(a, b) ==
  LET g == Gcd(IF a < 0 THEN -a ELSE a, b)
  IN  IF g = 0 THEN <<0, 1>> ELSE <<a \div g, b \div g>>

\* a number used as it is
Num(a) == <<a, 1>>

Max2(a, b) == IF a >= b THEN a ELSE b

\* a maximum that forgets its third argument
MathMaxOfTwo(a, b, c) == Max2(a, b)

\* Math.max(a, b, c)
MathMax(a, b, c) == Max2(Max2(a, b), c)

---------------------------------------------------------------------------
(* three.js objects, as far as buildSceneFromData constructs them *)

DefaultBackground == "#111111"

\* new THREE.Color(v): a hex string or number gives that colour; a string
\* that is no colour leaves the constructor's white.
ValidColors == {"#111111", "#202040", "#ff0000", "#00ff00"}

Color(v) == IF v \in ValidColors THEN v ELSE "#ffffff"

\* sceneData.backgroundColor || 0x111111
BackgroundOf(sceneData) ==
  IF Has(sceneData, "backgroundColor") /\ sceneData.backgroundColor # ""
  THEN sceneData.backgroundColor
  ELSE DefaultBackground

Threw == [threw |-> TRUE]

\* the switch on obj.shape: a geometry, "skip" for the default branch, or
\* the TypeError of reading s.x when obj.scale is undefined
MakeGeometry(obj) ==
  LET known == obj.shape \in {"box", "sphere", "cone", "cylinder", "torus"}
  IN  IF ~known THEN [threw |-> FALSE, skip |-> TRUE]
      ELSE IF ~Has(obj, "scale") THEN Threw
      ELSE LET s == obj.scale
               g == CASE obj.shape = "box" ->
                         [type |-> "BoxGeometry",
                          args |-> <<Num(s.x), Num(s.y), Num(s.z)>>]
                      [] obj.shape = "sphere" ->
                         [type |-> "SphereGeometry",
                          args |-> <<Div(MathMax(s.x, s.y, s.z), 2),
                                     Num(32), Num(16)>>]
                      [] obj.shape = "cone" ->
                         [type |-> "ConeGeometry",
                          args |-> <<Div(s.x, 2), Num(s.y), Num(32)>>]
                      [] obj.shape = "cylinder" ->
                         [type |-> "CylinderGeometry",
                          args |-> <<Div(s.x, 2), Div(s.z, 2), Num(s.y),
                                     Num(32)>>]
                      [] obj.shape = "torus" ->
                         [type |-> "TorusGeometry",
                          args |-> <<Div(s.x, 2), Div(s.y, 4), Num(16),
                                     Num(100)>>]
           IN  [threw |-> FALSE, skip |-> FALSE, geometry |-> g]

\* new MeshStandardMaterial, new Mesh, mesh.position.set: the TypeError of
\* reading obj.position.x when obj.position is undefined
MakeMesh(obj, geometry) ==
  IF ~Has(obj, "position") THEN Threw
  ELSE [threw |-> FALSE,
        mesh |-> [geometry |-> geometry,
                  material |-> [color |-> obj.color,
                                roughness |-> Div(1, 2),
                                metalness |-> Div(1, 10)],
                  position |-> <<Num(obj.position.x), Num(obj.position.y),
                                 Num(obj.position.z)>>]]

\* generatedContentGroup.add(mesh)
AddChild(children, mesh) == Append(children, mesh)

\* a clearing loop that removes nothing
RemoveNoChildren(children) == children

\* an if in place of the while: only the first child is removed
RemoveFirstChild(children) ==
  IF Len(children) > 0 THEN Tail(children) ELSE children

\* while (children.length > 0) remove(children[0])
RECURSIVE RemoveAllChildren(_)
RemoveAllChildren(children) ==
  IF Len(children) > 0 THEN RemoveAllChildren(Tail(children)) ELSE children

\* sceneData.objects.forEach(...), from index i on; stops at the first throw
RECURSIVE ForEachObject(_, _, _)
ForEachObject(objects, i, children) ==
  IF i > Len(objects) THEN [threw |-> FALSE, children |-> children]
  ELSE LET obj == objects[i]
           g == MakeGeometry(obj)
       IN  IF g.threw THEN [threw |-> TRUE, children |-> children]
           ELSE IF g.skip THEN ForEachObject(objects, i + 1, children)
           ELSE LET m == MakeMesh(obj, g.geometry)
                IN  IF m.threw THEN [threw |-> TRUE, children |-> children]
                    ELSE ForEachObject(objects, i + 1,
                                       AddChild(children, m.mesh))

\* the download toggle enabled for every objects list, the empty one too
EnableDownloadAlways(objects, disabled) == FALSE

\* objects.length > 0 enables the download toggle
EnableDownload(objects, disabled) ==
  IF Len(objects) > 0 THEN FALSE ELSE disabled

\* buildSceneFromData(sceneData) on the scene st = [children, background,
\* downloadDisabled]: the scene it leaves, and whether it threw
buildSceneFromData(sceneData, st) ==
  LET cleared == RemoveAllChildren(st.children)
  IN  IF sceneData = Null
      THEN [threw |-> TRUE, children |-> cleared,
            background |-> st.background,
            downloadDisabled |-> st.downloadDisabled]
      ELSE LET bg == Color(BackgroundOf(sceneData))
           IN  IF ~Has(sceneData, "objects")
               THEN [threw |-> TRUE, children |-> cleared, background |-> bg,
                     downloadDisabled |-> st.downloadDisabled]
               ELSE LET r == ForEachObject(sceneData.objects, 1, cleared)
                    IN  [threw |-> r.threw, children |-> r.children,
                         background |-> bg,
                         downloadDisabled |->
                           IF r.threw THEN st.downloadDisabled
                           ELSE EnableDownload(sceneData.objects,
                                               st.downloadDisabled)]

---------------------------------------------------------------------------
(* UI utility functions *)

\* setLoading with the button left enabled whatever isLoading is
setLoadingNeverDisables(isLoading) == FALSE

\* setLoading with the button left disabled whatever isLoading is
setLoadingNeverEnables(isLoading) == TRUE

\* setLoading(isLoading): the value it gives generateBtn.disabled
setLoading(isLoading) == isLoading

\* showError that sets the text and leaves the element hidden
showErrorTextOnly(message) == [display |-> "none", textContent |-> message]

\* showError(message)
showError(message) == [display |-> "block", textContent |-> message]

\* hideError()
hideError(div) == [div EXCEPT !.display = "none"]

MsgNoKey      == "Please set your Gemini API key in the settings before generating."
MsgNoInput    == "Please enter a prompt or upload an image to describe the scene."
MsgGenerate   == "Failed to generate the scene. The AI may be unavailable, your API key may be invalid, or the request could not be processed. Please check your key and try again."
MsgImageType  == "Please upload a valid image file (JPG, PNG, WebP)."
MsgGltf       == "Failed to export the scene as GLTF."
MsgObj        == "Failed to export the scene as OBJ."
MsgStl        == "Failed to export the scene as STL."

---------------------------------------------------------------------------
(* Inputs *)

SeqsUpTo(S, n) == UNION {[1..k -> S] : k \in 0..n}

Scale234 == [x |-> 2, y |-> 3, z |-> 4]
Scale246 == [x |-> 2, y |-> 4, z |-> 6]
Scale258 == [x |-> 2, y |-> 5, z |-> 8]
Scale312 == [x |-> 3, y |-> 1, z |-> 2]
Scales == {Scale234, Scale246, Scale258, Scale312}

Origin == [x |-> 0, y |-> 0, z |-> 0]
Point123 == [x |-> 1, y |-> 2, z |-> 3]

KnownShapes == {"box", "sphere", "cone", "cylinder", "torus"}

Descriptor(shape, color, position, scale) ==
  [shape |-> shape, color |-> color, position |-> position, scale |-> scale]

RedBox == Descriptor("box", "#ff0000", Origin, Scale234)
\* a shape outside the schema's enum
Pyramid == Descriptor("pyramid", "#ff0000", Origin, Scale234)
\* descriptors that lack a required field
BoxNoScale == [shape |-> "box", color |-> "#ff0000", position |-> Origin]
SphereNoPosition == [shape |-> "sphere", color |-> "#ff0000", scale |-> Scale246]
PyramidOnly == [shape |-> "pyramid"]

WellFormed(obj) ==
  /\ Has(obj, "shape") /\ Has(obj, "color")
  /\ Has(obj, "position") /\ Has(obj, "scale")

\* the descriptors of BuildSpec
Descriptors ==
  {Descriptor(sh, "#ff0000", Origin, sc) : sh \in KnownShapes, sc \in Scales}
  \cup {Descriptor("box", "#00ff00", Point123, Scale234)}
  \cup {Pyramid, PyramidOnly, BoxNoScale, SphereNoPosition}

Backgrounds == {"#202040", "", "darkish"}

\* scene descriptions: with or without backgroundColor
DescriptionsOver(D, n) ==
  {[objects |-> os] : os \in SeqsUpTo(D, n)}
  \cup {[backgroundColor |-> b, objects |-> os] :
          b \in Backgrounds, os \in SeqsUpTo(D, n)}

\* the objects lists of the responses of Spec: boxes and unknown shapes,
\* and such a list ended by a box without scale (forEach reads nothing
\* after the descriptor that makes it throw)
ResponseObjects ==
  SeqsUpTo({RedBox, Pyramid}, MaxResponseObjects)
  \cup {Append(os, BoxNoScale) :
          os \in SeqsUpTo({RedBox, Pyramid}, MaxResponseObjects - 1)}

\* what JSON.parse can return in Spec: null, an object without objects, or
\* an object with backgroundColor and objects
ResponseValues ==
  {Null, [backgroundColor |-> "#202040"]}
  \cup {[backgroundColor |-> "#202040", objects |-> os] :
          os \in ResponseObjects}

\* response.text: the JSON text of a value, or text that is no JSON
NotJSON == [garbage |-> TRUE]
Stringify(v) == [json |-> v]

\* JSON.parse(text)
JSONparse(text) ==
  IF Has(text, "json") THEN [threw |-> FALSE, value |-> text.json] ELSE Threw

\* how the call to ai.models.generateContent settles
Rejected == [kind |-> "rejected"]
Responses ==
  {Rejected, [kind |-> "resolved", text |-> NotJSON]}
  \cup {[kind |-> "resolved", text |-> Stringify(v)] : v \in ResponseValues}

NoData == [kind |-> "none"]

Prompts == {"", "a red chair"}
ApiKeys == {"", "key"}
Files == {"none", "image/png", "image/gif"}

---------------------------------------------------------------------------
(* The scene as buildSceneFromData reads and writes it *)

Scene ==
  [children |-> generatedContentGroup, background |-> sceneBackground,
   downloadDisabled |-> downloadToggleBtnDisabled]

SetScene(st) ==
  /\ generatedContentGroup' = st.children
  /\ sceneBackground' = st.background
  /\ downloadToggleBtnDisabled' = st.downloadDisabled

\* the Scene Graph of a scene: its ordered content and its background
SceneGraph(st) == [content |-> st.children, background |-> st.background]

---------------------------------------------------------------------------
(* Initial state: after main() has run initScene, initEventListeners and   *)
(* checkApiKey.  What index.html gives the DOM elements is InitialDom.     *)

InitialDom ==
  [generateBtnDisabled |-> FALSE,
   downloadToggleBtnDisabled |-> TRUE,
   downloadOptionsShown |-> FALSE,
   errorMessage |-> [display |-> "none", textContent |-> ""],
   promptInput |-> ""]

AiInstance == [apiKey |-> "key"]

\* checkApiKey: a saved key initialises ai, none shows the modal
checkApiKey(savedKey) ==
  IF savedKey # "" THEN [ai |-> AiInstance, modal |-> FALSE]
  ELSE [ai |-> Null, modal |-> TRUE]

\* initScene: the background and the empty content group
initScene == [children |-> <<>>, background |-> Color(DefaultBackground)]

\* renderer.render(scene, camera): the frame shows the content and the
\* background of the scene
Render(st) == [content |-> st.children, background |-> st.background]

Init ==
  /\ \E savedKey \in ApiKeys :
       /\ ai = checkApiKey(savedKey).ai
       /\ apiKeyModalShown = checkApiKey(savedKey).modal
  /\ promptInput = InitialDom.promptInput
  /\ uploadedImage = Null
  /\ readers = <<>>
  /\ generateBtnDisabled = InitialDom.generateBtnDisabled
  /\ downloadToggleBtnDisabled = InitialDom.downloadToggleBtnDisabled
  /\ downloadOptionsShown = InitialDom.downloadOptionsShown
  /\ errorMessage = InitialDom.errorMessage
  /\ generatedContentGroup = initScene.children
  /\ sceneBackground = initScene.background
  /\ inflight = <<>>
  /\ orchestrator = "Idle"
  /\ lastData = NoData
  /\ sceneAtStart = [children |-> initScene.children,
                     background |-> initScene.background,
                     downloadDisabled |-> InitialDom.downloadToggleBtnDisabled]
  /\ builds = 0
  /\ gltfPending = 0
  /\ frame = Render(initScene)
  /\ imageRemoved = FALSE

---------------------------------------------------------------------------
(* Event handlers *)

\* the window click listener: a click outside the download toggle closes
\* the dropdown
WindowClick == downloadOptionsShown' = FALSE

RemoveAt(seq, i) == SubSeq(seq, 1, i - 1) \o SubSeq(seq, i + 1, Len(seq))

\* the request parts: the optional inline image, then the text
RequestContents(image, prompt) ==
  (IF image # Null THEN <<[inlineData |-> image]>> ELSE <<>>)
  \o <<[text |-> prompt]>>

\* an input check that lets every request through
NoInputNever(prompt, image) == FALSE

\* !prompt && !uploadedImage
NoInput(prompt, image) == prompt = "" /\ image = Null

\* handleGenerateClick up to its await
handleGenerateClick ==
  IF ai = Null
  THEN /\ errorMessage' = showError(MsgNoKey)
       /\ apiKeyModalShown' = TRUE
       /\ UNCHANGED <<ai, promptInput, uploadedImage, readers,
                      generateBtnDisabled, downloadToggleBtnDisabled,
                      generatedContentGroup, sceneBackground, inflight,
                      orchestrator, lastData, sceneAtStart, builds>>
  ELSE IF NoInput(promptInput, uploadedImage)
  THEN /\ errorMessage' = showError(MsgNoInput)
       /\ UNCHANGED <<ai, apiKeyModalShown, promptInput, uploadedImage,
                      readers, generateBtnDisabled, downloadToggleBtnDisabled,
                      generatedContentGroup, sceneBackground, inflight,
                      orchestrator, lastData, sceneAtStart, builds>>
  ELSE /\ Len(inflight) < MaxInflight
       /\ generateBtnDisabled' = setLoading(TRUE)
       /\ errorMessage' = hideError(errorMessage)
       /\ downloadToggleBtnDisabled' = TRUE
       /\ inflight' = Append(inflight,
                             [contents |->
                                RequestContents(uploadedImage, promptInput)])
       /\ orchestrator' = "Requesting"
       /\ sceneAtStart' = Scene
       /\ builds' = 0
       /\ UNCHANGED <<ai, apiKeyModalShown, promptInput, uploadedImage,
                      readers, generatedContentGroup, sceneBackground,
                      lastData>>

\* a click on the generate button: a disabled button dispatches no click
GenerateClick ==
  IF generateBtnDisabled THEN UNCHANGED vars
  ELSE handleGenerateClick /\ WindowClick /\ UNCHANGED rest

\* handleGenerateClick from its await on: the call of invocation i settles
\* with response; try, catch and finally run in one turn
GenerateSettle(i, response) ==
  LET parsed == IF response.kind = "rejected" THEN Threw
                ELSE JSONparse(response.text)
      built == IF parsed.threw
               THEN [threw |-> TRUE, children |-> Scene.children,
                     background |-> Scene.background,
                     downloadDisabled |-> Scene.downloadDisabled]
               ELSE buildSceneFromData(parsed.value, Scene)
  IN  /\ SetScene(built)
      /\ builds' = IF parsed.threw THEN builds ELSE builds + 1
      /\ errorMessage' = IF built.threw THEN showError(MsgGenerate)
                         ELSE errorMessage
      /\ generateBtnDisabled' = setLoading(FALSE)
      /\ inflight' = RemoveAt(inflight, i)
      /\ orchestrator' = IF built.threw THEN "Failed" ELSE "Succeeded"
      /\ lastData' = response
      /\ UNCHANGED <<ai, apiKeyModalShown, promptInput, uploadedImage,
                     readers, downloadOptionsShown, sceneAtStart>>
      /\ UNCHANGED rest

GenerateResponse ==
  \E i \in 1..Len(inflight) : \E response \in Responses :
    GenerateSettle(i, response)

\* the user edits the prompt
PromptEdit ==
  /\ \E p \in Prompts : promptInput' = p
  /\ UNCHANGED <<ai, apiKeyModalShown, uploadedImage, readers,
                 generateBtnDisabled, downloadToggleBtnDisabled,
                 downloadOptionsShown, errorMessage, generatedContentGroup,
                 sceneBackground, inflight, orchestrator, lastData,
                 sceneAtStart, builds>>
  /\ UNCHANGED rest

\* initializeAi(key)
initializeAi(key) == [ai |-> [apiKey |-> key], modal |-> FALSE]

\* handleSaveApiKey: the save button of the modal
handleSaveApiKey ==
  /\ apiKeyModalShown
  /\ \E key \in ApiKeys :
       IF key # ""
       THEN /\ ai' = initializeAi(key).ai
            /\ apiKeyModalShown' = initializeAi(key).modal
       ELSE UNCHANGED <<ai, apiKeyModalShown>>
  /\ WindowClick
  /\ UNCHANGED <<promptInput, uploadedImage, readers, generateBtnDisabled,
                 downloadToggleBtnDisabled, errorMessage,
                 generatedContentGroup, sceneBackground, inflight,
                 orchestrator, lastData, sceneAtStart, builds>>
  /\ UNCHANGED rest

\* the settings button shows the modal
SettingsClick ==
  /\ apiKeyModalShown' = TRUE
  /\ WindowClick
  /\ UNCHANGED <<ai, promptInput, uploadedImage, readers, generateBtnDisabled,
                 downloadToggleBtnDisabled, errorMessage,
                 generatedContentGroup, sceneBackground, inflight,
                 orchestrator, lastData, sceneAtStart, builds>>
  /\ UNCHANGED rest

\* handleImageUpload: a change of the file input
handleImageUpload ==
  /\ \E file \in Files :
       IF file = "none"
       THEN UNCHANGED <<errorMessage, readers, imageRemoved>>
       ELSE IF file \notin {"image/jpeg", "image/png", "image/webp"}
       THEN /\ errorMessage' = showError(MsgImageType)
            /\ UNCHANGED <<readers, imageRemoved>>
       ELSE /\ Len(readers) < MaxReaders
            /\ readers' = Append(readers, file)
            /\ imageRemoved' = FALSE
            /\ UNCHANGED errorMessage
  /\ UNCHANGED <<ai, apiKeyModalShown, promptInput, uploadedImage,
                 generateBtnDisabled, downloadToggleBtnDisabled,
                 downloadOptionsShown, generatedContentGroup, sceneBackground,
                 inflight, orchestrator, lastData, sceneAtStart, builds>>
  /\ UNCHANGED <<gltfPending, frame>>

\* reader.onload of the i-th read in progress
ReaderLoad ==
  /\ \E i \in 1..Len(readers) :
       /\ uploadedImage' = [mimeType |-> readers[i], data |-> "base64"]
       /\ readers' = RemoveAt(readers, i)
  /\ UNCHANGED <<ai, apiKeyModalShown, promptInput, generateBtnDisabled,
                 downloadToggleBtnDisabled, downloadOptionsShown,
                 errorMessage, generatedContentGroup, sceneBackground,
                 inflight, orchestrator, lastData, sceneAtStart, builds>>
  /\ UNCHANGED rest

\* handleRemoveImage
handleRemoveImage ==
  /\ uploadedImage' = Null
  /\ WindowClick
  /\ UNCHANGED <<ai, apiKeyModalShown, promptInput, readers,
                 generateBtnDisabled, downloadToggleBtnDisabled, errorMessage,
                 generatedContentGroup, sceneBackground, inflight,
                 orchestrator, lastData, sceneAtStart, builds>>
  /\ imageRemoved' = TRUE
  /\ UNCHANGED <<gltfPending, frame>>

\* toggleDownloadOptions: a click on the download toggle, which dispatches
\* nothing while disabled
toggleDownloadOptions ==
  /\ downloadOptionsShown' = IF ~downloadToggleBtnDisabled
                             THEN ~downloadOptionsShown
                             ELSE downloadOptionsShown
  /\ UNCHANGED <<ai, apiKeyModalShown, promptInput, uploadedImage, readers,
                 generateBtnDisabled, downloadToggleBtnDisabled, errorMessage,
                 generatedContentGroup, sceneBackground, inflight,
                 orchestrator, lastData, sceneAtStart, builds>>
  /\ UNCHANGED rest

\* imagePreview.style.display = 'block' and imageUploadBtn.style.display =
\* 'none': set by reader.onload together with uploadedImage, and reset by
\* handleRemoveImage together with it
PreviewShown == uploadedImage # Null

\* a change of the file input, which the upload button opens while it is
\* displayed: the user picks a file while no read is in progress
ImageUploadChange == ~PreviewShown /\ readers = <<>> /\ handleImageUpload

\* the same change, also while earlier reads are still in progress
ImageUploadAgain == ~PreviewShown /\ handleImageUpload

\* a click on the remove button of the displayed preview
RemoveImageClick == PreviewShown /\ handleRemoveImage

\* one message for every exporter
ExportErrorMessageGltf(format) == MsgGltf

\* the message of the exporter of a format
ExportErrorMessage(format) ==
  CASE format = "gltf" -> MsgGltf
    [] format = "obj" -> MsgObj
    [] format = "stl" -> MsgStl

\* triggerDownload: the file is offered and the dropdown closes
triggerDownload == downloadOptionsShown' = FALSE

\* how an exporter's parse ends: with a result, or with an error
ExportOutcomes == {"done", "error"}

\* the end of an export of a format: triggerDownload on a result, the
\* exporter's error message on an error
ExportEnd(format, outcome) ==
  IF outcome = "done"
  THEN triggerDownload /\ UNCHANGED errorMessage
  ELSE errorMessage' = showError(ExportErrorMessage(format))

\* what no export handler touches
ExportFrame ==
  UNCHANGED <<ai, apiKeyModalShown, promptInput, uploadedImage, readers,
              generateBtnDisabled, downloadToggleBtnDisabled,
              generatedContentGroup, sceneBackground, inflight, orchestrator,
              lastData, sceneAtStart, builds, frame, imageRemoved>>

\* handleDownloadGLTF: a click on the GLTF link of the shown dropdown;
\* exporter.parse calls back later
handleDownloadGLTF ==
  /\ downloadOptionsShown
  /\ gltfPending < MaxExports
  /\ gltfPending' = gltfPending + 1
  /\ WindowClick
  /\ UNCHANGED errorMessage
  /\ ExportFrame

\* the onDone or onError callback of a GLTFExporter.parse
GltfCallback ==
  /\ gltfPending > 0
  /\ gltfPending' = gltfPending - 1
  /\ \E outcome \in ExportOutcomes :
       /\ ExportEnd("gltf", outcome)
       /\ outcome = "error" => UNCHANGED downloadOptionsShown
  /\ ExportFrame

\* handleDownloadOBJ: exporter.parse returns or throws at once
handleDownloadOBJ ==
  /\ downloadOptionsShown
  /\ \E outcome \in ExportOutcomes :
       ExportEnd("obj", outcome) /\ WindowClick
  /\ UNCHANGED gltfPending
  /\ ExportFrame

\* handleDownloadSTL: exporter.parse returns or throws at once
handleDownloadSTL ==
  /\ downloadOptionsShown
  /\ \E outcome \in ExportOutcomes :
       ExportEnd("stl", outcome) /\ WindowClick
  /\ UNCHANGED gltfPending
  /\ ExportFrame

\* animate: one tick of the render loop
animate ==
  /\ frame' = Render(Scene)
  /\ UNCHANGED <<ai, apiKeyModalShown, promptInput, uploadedImage, readers,
                 generateBtnDisabled, downloadToggleBtnDisabled,
                 downloadOptionsShown, errorMessage, generatedContentGroup,
                 sceneBackground, inflight, orchestrator, lastData,
                 sceneAtStart, builds, gltfPending, imageRemoved>>

Next ==
  \/ GenerateClick
  \/ GenerateResponse
  \/ PromptEdit
  \/ handleSaveApiKey
  \/ SettingsClick
  \/ ImageUploadChange
  \/ ReaderLoad
  \/ RemoveImageClick
  \/ toggleDownloadOptions

Spec == Init /\ [][Next]_vars

\* the generation cycle together with the readers of the scene: the render
\* loop and the exports
SceneNext ==
  \/ GenerateClick
  \/ GenerateResponse
  \/ PromptEdit
  \/ handleSaveApiKey
  \/ toggleDownloadOptions
  \/ handleDownloadGLTF
  \/ GltfCallback
  \/ handleDownloadOBJ
  \/ handleDownloadSTL
  \/ animate

SceneSpec == Init /\ [][SceneNext]_vars

\* the image input with overlapping reads, and the requests that send it
ImageNext ==
  \/ ImageUploadAgain
  \/ ReaderLoad
  \/ RemoveImageClick
  \/ PromptEdit
  \/ GenerateClick
  \/ GenerateResponse

ImageSpec == Init /\ [][ImageNext]_vars

---------------------------------------------------------------------------
(* BuildSpec: buildSceneFromData alone, applied to every description of    *)
(* Descriptions on every scene of PriorScenes, MaxBuilds times in          *)
(* succession with the same description.                                   *)

Descriptions == DescriptionsOver(Descriptors, MaxObjects)

\* scenes the program can be in when a build starts: the initial one, and
\* the one an earlier build has left, with the download toggle either way
PriorScenes ==
  {[children |-> initScene.children, background |-> initScene.background,
    downloadDisabled |-> TRUE]}
  \cup {[children |->
            ForEachObject(<<RedBox, Descriptor("box", "#00ff00", Point123,
                                               Scale234)>>, 1, <<>>).children,
          background |-> Color("#202040"),
          downloadDisabled |-> dl] : dl \in BOOLEAN}

BuildInit ==
  /\ ai = AiInstance
  /\ apiKeyModalShown = FALSE
  /\ promptInput = InitialDom.promptInput
  /\ uploadedImage = Null
  /\ readers = <<>>
  /\ generateBtnDisabled = InitialDom.generateBtnDisabled
  /\ downloadOptionsShown = InitialDom.downloadOptionsShown
  /\ errorMessage = InitialDom.errorMessage
  /\ inflight = <<>>
  /\ orchestrator = "Idle"
  /\ builds = 0
  /\ gltfPending = 0
  /\ imageRemoved = FALSE
  /\ \E st \in PriorScenes :
       /\ generatedContentGroup = st.children
       /\ sceneBackground = st.background
       /\ downloadToggleBtnDisabled = st.downloadDisabled
       /\ sceneAtStart = st
       /\ frame = Render(st)
  /\ \E d \in Descriptions : lastData = [kind |-> "description", value |-> d]

\* buildSceneFromData(lastData.value) on the current scene
ReplaceAll ==
  /\ builds < MaxBuilds
  /\ LET built == buildSceneFromData(lastData.value, Scene)
     IN  /\ SetScene(built)
         /\ orchestrator' = IF built.threw THEN "Failed" ELSE "Succeeded"
  /\ sceneAtStart' = Scene
  /\ builds' = builds + 1
  /\ UNCHANGED <<ai, apiKeyModalShown, promptInput, uploadedImage, readers,
                 generateBtnDisabled, downloadOptionsShown, errorMessage,
                 inflight, lastData>>
  /\ UNCHANGED rest

BuildNext == ReplaceAll

BuildSpec == BuildInit /\ [][BuildNext]_vars

---------------------------------------------------------------------------
(* Properties of the generation orchestrator, checked under Spec *)

Idle == inflight = <<>> /\ ~generateBtnDisabled

\* a response whose JSON value has no objects field, or whose objects all
\* have a shape outside the enum
Malformed(response) ==
  /\ response.kind = "resolved"
  /\ Has(response.text, "json")
  /\ response.text.json # Null
  /\ \/ ~Has(response.text.json, "objects")
     \/ /\ Len(response.text.json.objects) > 0
        /\ \A i \in 1..Len(response.text.json.objects) :
             response.text.json.objects[i].shape \notin KnownShapes

\* C1: after a request that ended in Failed, whatever the cause, the Scene
\* Graph (ordered content and background) is the one the request started
\* from.
C1_FailedKeepsSceneGraph ==
  orchestrator = "Failed" => SceneGraph(Scene) = SceneGraph(sceneAtStart)

\* C2: a malformed response (no objects field, or every shape outside the
\* enum) ends the request in Failed with the Scene Graph unchanged.
C2_MalformedFails ==
  (orchestrator \in {"Succeeded", "Failed"} /\ Malformed(lastData))
    => /\ orchestrator = "Failed"
       /\ errorMessage.display = "block"
       /\ SceneGraph(Scene) = SceneGraph(sceneAtStart)

\* C3: export is available only when the most recent generation Succeeded
\* and the content group holds at least one mesh.
C3_ExportNeedsMeshes ==
  ~downloadToggleBtnDisabled
    => orchestrator = "Succeeded" /\ Len(generatedContentGroup) > 0

\* C4: at most one call to the external service is outstanding, the
\* generate button is disabled while it is, and a generate trigger that
\* arrives meanwhile changes no state.
C4_SingleInFlight ==
  /\ [](Len(inflight) <= 1 /\ (Len(inflight) = 1 => generateBtnDisabled))
  /\ [][(Len(inflight) > 0 /\ GenerateClick) => UNCHANGED vars]_vars

\* a request is outstanding and its trigger is disabled
C4_Witness ==
  /\ Len(inflight) = 1
  /\ generateBtnDisabled
  /\ orchestrator = "Requesting"

\* C7: a trigger in Idle without a credential, or with neither prompt nor
\* image, starts no call, leaves the orchestrator Idle, the scene and the
\* export availability as they were, and shows an error (and the credential
\* modal when the credential is missing).
C7_LocalReject ==
  [][(/\ Idle
      /\ GenerateClick
      /\ (ai = Null \/ (promptInput = "" /\ uploadedImage = Null)))
     => /\ inflight' = <<>>
        /\ ~generateBtnDisabled'
        /\ orchestrator' = orchestrator
        /\ Scene' = Scene
        /\ errorMessage'.display = "block"
        /\ errorMessage'.textContent =
             (IF ai = Null THEN MsgNoKey ELSE MsgNoInput)
        /\ (ai = Null => apiKeyModalShown')
        /\ UNCHANGED <<ai, promptInput, uploadedImage, readers, lastData,
                       sceneAtStart, builds>>]_vars

\* the empty-input error is shown in Idle after an earlier generation made
\* export available
C7_Witness ==
  /\ errorMessage = [display |-> "block", textContent |-> MsgNoInput]
  /\ Idle
  /\ orchestrator = "Succeeded"
  /\ ~downloadToggleBtnDisabled
  /\ Len(generatedContentGroup) > 0

\* C8: a request that fails ends in Idle with the generate error visible,
\* and no call is started except one by a click on the enabled generate
\* button.
C8_FailureShowsErrorNoRetry ==
  /\ [][(orchestrator = "Requesting" /\ orchestrator' = "Failed")
         => /\ errorMessage'.display = "block"
            /\ errorMessage'.textContent = MsgGenerate
            /\ Idle']_vars
  /\ [](orchestrator = "Failed" => Idle /\ errorMessage.display = "block")
  /\ [][Len(inflight') > Len(inflight)
         => /\ Len(inflight') = Len(inflight) + 1
            /\ ~generateBtnDisabled
            /\ GenerateClick]_vars

\* a request has failed on a rejected call and the generate error is visible
C8_Witness ==
  /\ orchestrator = "Failed"
  /\ lastData = Rejected
  /\ errorMessage = [display |-> "block", textContent |-> MsgGenerate]
  /\ Idle

\* C14: buildSceneFromData runs only in the completion path of a request
\* in Requesting state, and at most once for a request.
C14_BuildOncePerRequest ==
  /\ [](builds <= 1)
  /\ [][builds' > builds
          => /\ orchestrator = "Requesting"
             /\ Len(inflight) = 1
             /\ inflight' = <<>>
             /\ builds = 0
             /\ orchestrator' \in {"Succeeded", "Failed"}]_vars

\* the one build of a request has run and failed part-way
C14_Witness ==
  /\ builds = 1
  /\ orchestrator = "Failed"
  /\ inflight = <<>>
  /\ Len(generatedContentGroup) = 1

\* C16: export is disabled in every state with a request outstanding; a
\* request that ended in Failed leaves it disabled, also when meshes
\* remain in the content group; only a buildSceneFromData that completes
\* with a non-empty objects list enables it again.
C16_ExportDisabledUntilBuilt ==
  /\ []((Len(inflight) > 0 \/ orchestrator = "Failed")
          => downloadToggleBtnDisabled)
  /\ [][(downloadToggleBtnDisabled /\ ~downloadToggleBtnDisabled')
          => /\ builds' = builds + 1
             /\ orchestrator' = "Succeeded"
             /\ Len(lastData'.text.json.objects) > 0]_vars

\* a shown scene whose export was available, then a request that the
\* service rejected: the meshes remain and export is disabled
C16_Witness ==
  /\ orchestrator = "Failed"
  /\ lastData = Rejected
  /\ Len(generatedContentGroup) > 0
  /\ Len(sceneAtStart.children) > 0
  /\ ~sceneAtStart.downloadDisabled
  /\ downloadToggleBtnDisabled

---------------------------------------------------------------------------
(* Liveness of the orchestrator: FairSpec assumes that an outstanding call *)
(* to the external service eventually resolves or rejects.                 *)

FairSpec == Spec /\ WF_vars(GenerateResponse)

\* C5: every request that enters Requesting returns to Idle with the
\* generate trigger enabled.
C5_RequestingLeadsToIdle ==
  (orchestrator = "Requesting") ~> Idle

\* a request whose build threw has returned to Idle
C5_Witness ==
  /\ orchestrator = "Failed"
  /\ builds = 1
  /\ Idle

---------------------------------------------------------------------------
(* Properties of the readers of the scene, checked under SceneSpec *)

\* the steps of the export of a format
ExportStep(format) ==
  CASE format = "gltf" -> handleDownloadGLTF \/ GltfCallback
    [] format = "obj" -> handleDownloadOBJ
    [] format = "stl" -> handleDownloadSTL

\* the error message block showing a text
Shown(text) == [display |-> "block", textContent |-> text]

\* C11: every export, GLTF, OBJ or STL, whether it succeeds or fails,
\* leaves the Scene Graph, the orchestrator state and the export
\* availability as they were; a failure shows that exporter's own message
\* and nothing else.
C11_ExportsOnlyRead ==
  [][/\ \A format \in {"gltf", "obj", "stl"} :
          ExportStep(format) =>
            /\ generatedContentGroup' = generatedContentGroup
            /\ sceneBackground' = sceneBackground
            /\ orchestrator' = orchestrator
            /\ inflight' = inflight
            /\ generateBtnDisabled' = generateBtnDisabled
            /\ downloadToggleBtnDisabled' = downloadToggleBtnDisabled
     /\ GltfCallback => errorMessage' \in {errorMessage, Shown(MsgGltf)}
     /\ handleDownloadGLTF => errorMessage' = errorMessage
     /\ handleDownloadOBJ => errorMessage' \in {errorMessage, Shown(MsgObj)}
     /\ handleDownloadSTL => errorMessage' \in {errorMessage, Shown(MsgStl)}
    ]_vars

\* an OBJ export of a shown scene has failed, and a GLTF export of it is
\* still running
C11_Witness ==
  /\ errorMessage = Shown(MsgObj)
  /\ gltfPending = 1
  /\ orchestrator = "Succeeded"
  /\ Len(generatedContentGroup) > 0
  /\ ~downloadToggleBtnDisabled

\* C12: what render ticks and exports find in the content group is the
\* initial empty content or the complete mesh list of one accepted
\* description, also after a build that stops part-way: as long as no
\* response has been accepted, the content group is empty.
C12_WholeScenesOnly ==
  [][(lastData = NoData /\ orchestrator' # "Succeeded")
       => generatedContentGroup' = <<>>]_vars

\* C13: while a request is outstanding the render loop keeps running and
\* every tick draws the Scene Graph the request started from: content and
\* background do not change between the start of the request and the
\* processing of its response.
C13_TicksSeeOldScene ==
  /\ [](Len(inflight) > 0 =>
          /\ SceneGraph(Scene) = SceneGraph(sceneAtStart)
          /\ ENABLED animate)
  /\ [][(Len(inflight) > 0 /\ frame' # frame)
          => frame' = SceneGraph(sceneAtStart)]_vars

\* during a request that started from a scene of meshes, the frame shows
\* that scene
C13_Witness ==
  /\ Len(inflight) = 1
  /\ orchestrator = "Requesting"
  /\ Len(sceneAtStart.children) > 0
  /\ frame = SceneGraph(sceneAtStart)

---------------------------------------------------------------------------
(* Properties of the image input, checked under ImageSpec *)

\* the request parts hold an inline image
SendsImage(request) ==
  \E k \in 1..Len(request.contents) : Has(request.contents[k], "inlineData")

\* C17: after handleRemoveImage the stored image stays null until the user
\* selects a new file, whatever the order of uploads, read completions and
\* removes, so a request started after a removal sends no image part.
C17_RemovedStaysRemoved ==
  /\ [](imageRemoved => uploadedImage = Null)
  /\ [][(imageRemoved /\ Len(inflight') > Len(inflight))
          => ~SendsImage(inflight'[Len(inflight')])]_vars

---------------------------------------------------------------------------
(* Properties of buildSceneFromData, checked under BuildSpec *)

\* the description the builds of BuildSpec were given
Description == lastData.value

\* a description the schema allows as far as the builder reads it: objects
\* is present and every object of a known shape has its scale and position
ValidDescription(d) ==
  /\ Has(d, "objects")
  /\ \A i \in 1..Len(d.objects) :
       d.objects[i].shape \in KnownShapes => WellFormed(d.objects[i])

IsKnown(obj) == obj.shape \in KnownShapes

\* the descriptors of known shape, in their order
Recognised(d) == SelectSeq(d.objects, IsKnown)

\* q is the rational n / d
IsRatio(q, n, d) == q[1] * d = n * q[2] /\ q[2] > 0

\* m is the largest of x, y, z
IsMaxOf(m, x, y, z) == m \in {x, y, z} /\ m >= x /\ m >= y /\ m >= z

\* the mesh is the one the shape mapping prescribes for the descriptor
MeshMatches(mesh, obj) ==
  LET s == obj.scale
      a == mesh.geometry.args
  IN  /\ mesh.material.color = obj.color
      /\ mesh.position = <<<<obj.position.x, 1>>, <<obj.position.y, 1>>,
                           <<obj.position.z, 1>>>>
      /\ obj.shape = "box" =>
           /\ mesh.geometry.type = "BoxGeometry"
           /\ a = <<<<s.x, 1>>, <<s.y, 1>>, <<s.z, 1>>>>
      /\ obj.shape = "sphere" =>
           /\ mesh.geometry.type = "SphereGeometry"
           /\ \E m \in {s.x, s.y, s.z} :
                IsMaxOf(m, s.x, s.y, s.z) /\ IsRatio(a[1], m, 2)
      /\ obj.shape = "cone" =>
           /\ mesh.geometry.type = "ConeGeometry"
           /\ IsRatio(a[1], s.x, 2) /\ a[2] = <<s.y, 1>>
      /\ obj.shape = "cylinder" =>
           /\ mesh.geometry.type = "CylinderGeometry"
           /\ IsRatio(a[1], s.x, 2) /\ IsRatio(a[2], s.z, 2)
           /\ a[3] = <<s.y, 1>>
      /\ obj.shape = "torus" =>
           /\ mesh.geometry.type = "TorusGeometry"
           /\ IsRatio(a[1], s.x, 2) /\ IsRatio(a[2], s.y, 4)
      \* the examples: box (2,3,4), sphere (2,4,6), cylinder (2,5,8)
      /\ (obj.shape = "box" /\ s = Scale234) =>
           a = <<<<2, 1>>, <<3, 1>>, <<4, 1>>>>
      /\ (obj.shape = "sphere" /\ s = Scale246) => a[1] = <<3, 1>>
      /\ (obj.shape = "cylinder" /\ s = Scale258) =>
           SubSeq(a, 1, 3) = <<<<1, 1>>, <<4, 1>>, <<5, 1>>>>

\* C6: after replaceAll of a valid description with N objects of known
\* shape and K of unknown shape, on any prior scene, the content group
\* holds exactly N meshes, the i-th being the mesh of the i-th descriptor
\* of known shape, and nothing of the prior content.
C6_ExactlyTheRecognised ==
  (builds = 1 /\ ValidDescription(Description))
    => /\ orchestrator = "Succeeded"
       /\ Len(generatedContentGroup) = Len(Recognised(Description))
       /\ Len(generatedContentGroup) =
            Cardinality({i \in 1..Len(Description.objects) :
                           IsKnown(Description.objects[i])})
       /\ \A i \in 1..Len(generatedContentGroup) :
            LET obj == Recognised(Description)[i]
            IN  /\ generatedContentGroup[i].material.color = obj.color
                /\ generatedContentGroup[i].geometry =
                     MakeGeometry(obj).geometry
                /\ generatedContentGroup[i].position =
                     <<Num(obj.position.x), Num(obj.position.y),
                       Num(obj.position.z)>>

\* one known and one unknown shape were built over a prior scene of two
\* meshes: one mesh is left
C6_Witness ==
  /\ builds = 1
  /\ ValidDescription(Description)
  /\ Len(Description.objects) = 2
  /\ Description.objects[1] = Pyramid
  /\ IsKnown(Description.objects[2])
  /\ Len(sceneAtStart.children) = 2
  /\ Len(generatedContentGroup) = 1

\* C9: a second replaceAll with the same description leaves the scene the
\* first one left: the same meshes in the same order, the same background
\* and the same export availability.
C9_Idempotent ==
  builds >= 2 => Scene = sceneAtStart

\* the second build of a description of two known shapes has run
C9_Witness ==
  /\ builds = 2
  /\ orchestrator = "Succeeded"
  /\ Len(generatedContentGroup) = 2
  /\ ~downloadToggleBtnDisabled

\* C10: every mesh built from a descriptor has the dimensions the shape
\* mapping gives for the descriptor's scale, the descriptor's colour and
\* the descriptor's position.
C10_ShapeMapping ==
  (builds = 1 /\ ValidDescription(Description))
    => /\ Len(generatedContentGroup) = Len(Recognised(Description))
       /\ \A i \in 1..Len(generatedContentGroup) :
            MeshMatches(generatedContentGroup[i], Recognised(Description)[i])

\* a sphere of scale (2,4,6) and a cylinder of scale (2,5,8) were built
C10_Witness ==
  /\ builds = 1
  /\ Len(generatedContentGroup) = 2
  /\ Description.objects =
       <<Descriptor("sphere", "#ff0000", Origin, Scale246),
         Descriptor("cylinder", "#ff0000", Origin, Scale258)>>
  /\ generatedContentGroup[1].geometry.args[1] = <<3, 1>>

\* C15: after replaceAll(d) the background is d.backgroundColor when that
\* is present and a valid colour, and the fixed default dark colour when it
\* is missing or invalid; it is never carried over from the scene before.
C15_BackgroundOrDefault ==
  (builds >= 1 /\ ValidDescription(Description))
    => sceneBackground =
         IF /\ Has(Description, "backgroundColor")
            /\ Description.backgroundColor \in ValidColors
         THEN Description.backgroundColor
         ELSE DefaultBackground

====
